---------------------------- MODULE Spec2Model ----------------------------
(***************************************************************************)
(* A model of sv-modular: the module-path helpers of the generators        *)
(* (toKebab, plural, parseModulePath, buildRoutePath), the create-server   *)
(* generator acting on the project directory, and the CRUD service that    *)
(* the generator writes into services.ts, acting on its in-memory store.   *)
(*                                                                         *)
(* A JavaScript string is a sequence of one-character strings, so that     *)
(* trimming, splitting, case folding and suffix tests are computed.        *)
(***************************************************************************)
EXTENDS Integers, Sequences, FiniteSets, TLC

VARIABLES
    input,      \* SpecText: the string handed to a helper
    out,        \* SpecText: what the last helper application returned
    fs,         \* Spec: the project directory (dirs, files, log, manifest)
    run,        \* Spec: the last CLI invocation and its outcome
    nRuns,      \* Spec: invocations so far
    procs,      \* SpecSteps: the CLI processes running in the project directory
    failed,     \* SpecFail: the invocations that a failing file system call ended
    store,      \* SpecService: the FAKE_<NAME> array of values.ts
    nextUuid,   \* SpecService: how many values crypto.randomUUID() has handed out
    last,       \* SpecService: the last request and its response
    count,      \* SpecService: successful inserts, deletes and updates so far
    inFlight    \* SpecRace: the updates that await their request body

vars == <<input, out, fs, run, nRuns, procs, failed, store, nextUuid, last, count, inFlight>>

textVars == <<input, out>>
cliVars == <<fs, run, nRuns, procs, failed>>
serviceVars == <<store, nextUuid, last, count, inFlight>>

-----------------------------------------------------------------------------
(* Bounds of the model.                                                    *)

\* longest input string of SpecText
MaxLen == 4

-----------------------------------------------------------------------------
(* Strings.                                                                *)

\* the characters input strings are drawn from
Alphabet == {"a", "A", "s", "y", "/", " ", "_", "-"}

Strings(n) == UNION {[1..k -> Alphabet] : k \in 0..n}

\* JavaScript's white space, as far as the alphabet holds any
IsSpace(c) == c \in {" ", "\t", "\n"}

UpperToLower == [A |-> "a", B |-> "b", C |-> "c", D |-> "d", E |-> "e", F |-> "f", G |-> "g",
                 H |-> "h", I |-> "i", J |-> "j", K |-> "k", L |-> "l", M |-> "m", N |-> "n",
                 O |-> "o", P |-> "p", Q |-> "q", R |-> "r", S |-> "s", T |-> "t", U |-> "u",
                 V |-> "v", W |-> "w", X |-> "x", Y |-> "y", Z |-> "z"]

LowerToUpper == [a |-> "A", b |-> "B", c |-> "C", d |-> "D", e |-> "E", f |-> "F", g |-> "G",
                 h |-> "H", i |-> "I", j |-> "J", k |-> "K", l |-> "L", m |-> "M", n |-> "N",
                 o |-> "O", p |-> "P", q |-> "Q", r |-> "R", s |-> "S", t |-> "T", u |-> "U",
                 v |-> "V", w |-> "W", x |-> "X", y |-> "Y", z |-> "Z"]

UpperLetters == DOMAIN UpperToLower
LowerLetters == DOMAIN LowerToUpper

LowerChar(c) == IF c \in UpperLetters THEN UpperToLower[c] ELSE c

UpperChar(c) == IF c \in LowerLetters THEN LowerToUpper[c] ELSE c

\* String.prototype.toLowerCase
toLowerCase(s) == [i \in 1..Len(s) |-> LowerChar(s[i])]

RECURSIVE TrimStart(_)
TrimStart(s) ==
    IF s # <<>> /\ IsSpace(Head(s)) THEN TrimStart(Tail(s)) ELSE s

RECURSIVE TrimEnd(_)
TrimEnd(s) ==
    IF s # <<>> /\ IsSpace(s[Len(s)]) THEN TrimEnd(SubSeq(s, 1, Len(s) - 1)) ELSE s

\* String.prototype.trim
trim(s) == TrimEnd(TrimStart(s))

\* String.prototype.endsWith, for a one-character suffix
endsWith(s, c) == s # <<>> /\ s[Len(s)] = c

\* String.prototype.split(sep), for a one-character separator: always at
\* least one piece, "" splits to [""]
RECURSIVE SplitFrom(_, _, _)
SplitFrom(s, sep, cur) ==
    IF s = <<>> THEN <<cur>>
    ELSE IF Head(s) = sep THEN <<cur>> \o SplitFrom(Tail(s), sep, <<>>)
    ELSE SplitFrom(Tail(s), sep, Append(cur, Head(s)))

split(s, sep) == SplitFrom(s, sep, <<>>)

\* Array.prototype.join(sep): [] joins to ""
RECURSIVE join(_, _)
join(parts, sep) ==
    IF parts = <<>> THEN <<>>
    ELSE IF Len(parts) = 1 THEN parts[1]
    ELSE parts[1] \o <<sep>> \o join(Tail(parts), sep)

\* Array.prototype.slice(0, -1)
sliceFront(parts) == IF parts = <<>> THEN <<>> ELSE SubSeq(parts, 1, Len(parts) - 1)

\* a JavaScript value that may be undefined
Undefined == [def |-> FALSE, val |-> <<>>]
Defined(v) == [def |-> TRUE, val |-> v]

\* parts[parts.length - 1]
lastOf(parts) == IF parts = <<>> THEN Undefined ELSE Defined(parts[Len(parts)])

-----------------------------------------------------------------------------
(* The helpers of the generators.                                          *)

IsKebabSep(c) == IsSpace(c) \/ c = "_"

\* replace(/[\s_]+/g, "-"): every maximal run becomes one hyphen
RECURSIVE ReplaceRuns(_, _)
ReplaceRuns(s, inRun) ==
    IF s = <<>> THEN <<>>
    ELSE IF IsKebabSep(Head(s))
         THEN (IF inRun THEN <<>> ELSE <<"-">>) \o ReplaceRuns(Tail(s), TRUE)
         ELSE <<Head(s)>> \o ReplaceRuns(Tail(s), FALSE)

\* replace(/[\s_]+/, "-"): the g flag lost, only the first run is replaced
RECURSIVE ReplaceFirstRun(_, _)
ReplaceFirstRun(s, inRun) ==
    IF s = <<>> THEN <<>>
    ELSE IF IsKebabSep(Head(s))
         THEN (IF inRun THEN <<>> ELSE <<"-">>) \o ReplaceFirstRun(Tail(s), TRUE)
         ELSE IF inRun THEN s
         ELSE <<Head(s)>> \o ReplaceFirstRun(Tail(s), FALSE)

toKebabFirstRunOnly(s) == ReplaceFirstRun(toLowerCase(trim(s)), FALSE)

toKebab(s) == ReplaceRuns(toLowerCase(trim(s)), FALSE)

pluralNoSCheck(str) ==
    IF endsWith(str, "y") THEN SubSeq(str, 1, Len(str) - 1) \o <<"i", "e", "s">>
    ELSE str \o <<"s">>

plural(str) ==
    IF endsWith(str, "s") THEN str
    ELSE IF endsWith(str, "y") THEN SubSeq(str, 1, Len(str) - 1) \o <<"i", "e", "s">>
    ELSE str \o <<"s">>

parseModulePathNoTrim(raw) ==
    LET parts == SelectSeq(split(raw, "/"), LAMBDA v : v # <<>>)
    IN  [moduleName |-> lastOf(parts), folderPath |-> join(parts, "/"), parts |-> parts]

parseModulePath(raw) ==
    LET parts == SelectSeq(split(raw, "/"), LAMBDA v : trim(v) # <<>>)
    IN  [moduleName |-> lastOf(parts), folderPath |-> join(parts, "/"), parts |-> parts]

\* plural(undefined) throws a TypeError at str.endsWith
routeThrows(parts) == parts = <<>>

buildRoutePathPluralAll(parts) ==
    join([i \in 1..Len(parts) |-> plural(parts[i])], "/")

\* defined when parts is not empty
buildRoutePath(parts) ==
    LET parents == join(sliceFront(parts), "/")
        leafPlural == plural(parts[Len(parts)])
    IN  IF parents # <<>> THEN parents \o <<"/">> \o leafPlural ELSE leafPlural

-----------------------------------------------------------------------------
(* SpecText: a helper applied to an input string.                          *)

NoOut == [fn |-> "none"]

ApplyToKebab ==
    /\ out = NoOut
    /\ out' = [fn |-> "toKebab", res |-> toKebab(input)]
    /\ UNCHANGED <<input, cliVars, serviceVars>>

ApplyPlural ==
    /\ out = NoOut
    /\ out' = [fn |-> "plural", res |-> plural(input)]
    /\ UNCHANGED <<input, cliVars, serviceVars>>

ApplyParseModulePath ==
    /\ out = NoOut
    /\ out' = [fn |-> "parseModulePath", res |-> parseModulePath(input)]
    /\ UNCHANGED <<input, cliVars, serviceVars>>

\* the call generateServerModule makes: buildRoutePath(parseModulePath(rawPath).parts)
ApplyBuildRoutePath ==
    /\ out = NoOut
    /\ LET p == parseModulePath(input)
       IN  out' = IF routeThrows(p.parts)
                  THEN [fn |-> "buildRoutePath", threw |-> TRUE, parsed |-> p]
                  ELSE [fn |-> "buildRoutePath", threw |-> FALSE, parsed |-> p,
                        res |-> buildRoutePath(p.parts)]
    /\ UNCHANGED <<input, cliVars, serviceVars>>

-----------------------------------------------------------------------------
(* The project directory.  A path is the sequence of its segments below    *)
(* process.cwd(); node's join() drops the empty segments.  fs.files maps   *)
(* each file to a description of the text written to it.                   *)

Seg(name) == <<name>>

pathOf(str) == SelectSeq(split(str, "/"), LAMBDA v : v # <<>>)

ModulesRoot == <<Seg("src"), Seg("lib"), Seg("modules")>>
ApiRoot == <<Seg("src"), Seg("routes"), Seg("api")>>
HelperDir == <<Seg("src"), Seg("lib"), Seg("helpers")>>
HelperFile == Append(HelperDir, Seg("response.ts"))

Prefixes(p) == {SubSeq(p, 1, k) : k \in 1..Len(p)}

existsSync(f, p) == p \in f.dirs \/ p \in DOMAIN f.files

\* mkdirSync(p, { recursive: true })
mkdirSync(f, p) == [f EXCEPT !.dirs = @ \cup Prefixes(p)]

\* writeFileSync(p, text): creates the file or replaces its text
writeFileSync(f, p, text) ==
    [f EXCEPT !.files = [q \in DOMAIN @ \cup {p} |-> IF q = p THEN text ELSE @[q]]]

\* writeFileSync for appendFileSync: the line replaces the log
logOverwrites(f, message) == [f EXCEPT !.log = <<message>>]

\* log(message): appendFileSync("module.log", "[ts] message\n")
log(f, message) == [f EXCEPT !.log = Append(@, message)]

\* module.json as JSON.parse reads it: absent, or a text that parses or not;
\* a parsed manifest has a modules array or none
NoManifest == [present |-> FALSE, parses |-> FALSE, hasModules |-> FALSE, modules |-> <<>>]

StringEntry(s) == [t |-> "string", s |-> s]

entryMatches(m, pathString) ==
    \/ m.t = "string" /\ m.s = pathString
    \/ m.t = "object" /\ m.name = pathString

\* push and write without looking for the entry
updateModuleJsonAlwaysPush(f, pathString) ==
    LET json == IF f.manifest.present /\ f.manifest.parses /\ f.manifest.hasModules
                THEN f.manifest.modules
                ELSE <<>>
    IN  [f EXCEPT !.manifest = [present |-> TRUE, parses |-> TRUE,
                                hasModules |-> TRUE,
                                modules |-> Append(json, StringEntry(pathString))]]

updateModuleJson(f, pathString) ==
    LET json == IF f.manifest.present /\ f.manifest.parses /\ f.manifest.hasModules
                THEN f.manifest.modules
                ELSE <<>>
        exists == \E i \in 1..Len(json) : entryMatches(json[i], pathString)
    IN  IF exists THEN f
        ELSE [f EXCEPT !.manifest = [present |-> TRUE, parses |-> TRUE,
                                     hasModules |-> TRUE,
                                     modules |-> Append(json, StringEntry(pathString))]]

-----------------------------------------------------------------------------
(* generateServerModule(rawPath)                                           *)

moduleFolderFullPath(folderPath) == ModulesRoot \o pathOf(folderPath)

routeDirOf(pluralRouteName) == ApiRoot \o pathOf(pluralRouteName)

\* the guard looking at the route tree instead of the module tree
moduleExistsUnderRoutes(f, folderPath) == existsSync(f, ApiRoot \o pathOf(folderPath))

\* the guard: existsSync(moduleFolderFullPath)
moduleExists(f, folderPath) == existsSync(f, moduleFolderFullPath(folderPath))

\* the helper written without existsSync(helperFile) before it
ensureHelperAlwaysWrites(f) ==
    LET f1 == IF existsSync(f, HelperDir) THEN f ELSE mkdirSync(f, HelperDir)
    IN  log(writeFileSync(f1, HelperFile, [kind |-> "response helper"]),
            [msg |-> "Created response helper"])

ensureHelper(f) ==
    LET f1 == IF existsSync(f, HelperDir) THEN f ELSE mkdirSync(f, HelperDir)
    IN  IF existsSync(f1, HelperFile) THEN f1
        ELSE log(writeFileSync(f1, HelperFile, [kind |-> "response helper"]),
                 [msg |-> "Created response helper"])

writeModuleFiles(f, p) ==
    LET dir == moduleFolderFullPath(p.folderPath)
        name == p.moduleName.val
        route == buildRoutePath(p.parts)
        f1 == mkdirSync(f, dir)
        f2 == writeFileSync(f1, Append(dir, Seg("types.ts")), [kind |-> "types", name |-> name])
        f3 == writeFileSync(f2, Append(dir, Seg("values.ts")), [kind |-> "values", name |-> name])
        f4 == writeFileSync(f3, Append(dir, Seg("services.ts")), [kind |-> "services", name |-> name])
    IN  writeFileSync(f4, Append(dir, Seg("spec.md")),
                      [kind |-> "spec", name |-> name, route |-> route])

writeRoutes(f, p) ==
    LET route == buildRoutePath(p.parts)
        routeDir == routeDirOf(route)
        idDir == Append(routeDir, Seg("[id]"))
        f1 == mkdirSync(mkdirSync(f, routeDir), idDir)
        f2 == writeFileSync(f1, Append(routeDir, Seg("+server.ts")),
                            [kind |-> "route list", name |-> p.moduleName.val,
                             route |-> route, modulePath |-> p.folderPath])
    IN  writeFileSync(f2, Append(idDir, Seg("+server.ts")),
                      [kind |-> "route detail", name |-> p.moduleName.val,
                       route |-> route, modulePath |-> p.folderPath])

\* the statements after the guard, in their order
generateAfterGuard(f, rawPath, p) ==
    LET f1 == ensureHelper(f)
        f2 == writeModuleFiles(f1, p)
        f3 == writeRoutes(f2, p)
        f4 == log(f3, [msg |-> "Generated module", rawPath |-> rawPath])
    IN  updateModuleJson(f4, rawPath)

\* the process's exit code and the directory it leaves.  An uncaught
\* TypeError (buildRoutePath on no segment, before the guard) ends node
\* with code 1
generateServerModule(f, rawPath) ==
    LET p == parseModulePath(rawPath)
    IN  IF routeThrows(p.parts) THEN [code |-> 1, how |-> "threw", fs |-> f]
        ELSE IF moduleExists(f, p.folderPath) THEN [code |-> 1, how |-> "guard", fs |-> f]
        ELSE [code |-> 0, how |-> "done", fs |-> generateAfterGuard(f, rawPath, p)]

-----------------------------------------------------------------------------
(* Spec: invocations of the CLI in one project directory.                  *)

\* CLI invocations of one behaviour
MaxRuns == 3

\* the <path> arguments tried: a, as, ay, a/s, /a/, a//s, s/a, a/ /s and ""
RawPaths ==
    { <<"a">>, <<"a", "s">>, <<"a", "y">>, <<"a", "/", "s">>, <<"/", "a", "/">>,
      <<"a", "/", "/", "s">>, <<"s", "/", "a">>, <<"a", "/", " ", "/", "s">>, <<>> }

EmptyFs == [dirs |-> {}, files |-> <<>>, log |-> <<>>, manifest |-> NoManifest]

NoRun == [cmd |-> "none"]

CreateServer(rawPath) ==
    /\ nRuns < MaxRuns
    /\ LET r == generateServerModule(fs, rawPath)
       IN  /\ fs' = r.fs
           /\ run' = [cmd |-> "create-server", rawPath |-> rawPath, code |-> r.code,
                      how |-> r.how, before |-> fs]
    /\ nRuns' = nRuns + 1
    /\ UNCHANGED <<procs, failed, textVars, serviceVars>>

-----------------------------------------------------------------------------
(* generateFrontendModule(inputName, options)                              *)

\* split(/[-/]/g)
RECURSIVE SplitPascal(_, _)
SplitPascal(s, cur) ==
    IF s = <<>> THEN <<cur>>
    ELSE IF Head(s) \in {"-", "/"} THEN <<cur>> \o SplitPascal(Tail(s), <<>>)
    ELSE SplitPascal(Tail(s), Append(cur, Head(s)))

\* charAt(0).toUpperCase() + slice(1) of every piece, joined by ""
RECURSIVE PascalJoin(_)
PascalJoin(pieces) ==
    IF pieces = <<>> THEN <<>>
    ELSE (IF Head(pieces) = <<>> THEN <<>>
          ELSE <<UpperChar(Head(pieces)[1])>> \o Tail(Head(pieces)))
         \o PascalJoin(Tail(pieces))

toPascal(s) == PascalJoin(SplitPascal(s, <<>>))

RoutesRoot == <<Seg("src"), Seg("routes")>>

\* options.route is absent, or the text after -r
NoRoute == Undefined
Route(text) == [def |-> TRUE, val |-> text]

\* options.route ? options.route : rawModuleName
routePathOf(rawModuleName, route) ==
    IF route.def /\ route.val # <<>> THEN route.val ELSE rawModuleName

modulePathOf(rawModuleName) == ModulesRoot \o pathOf(rawModuleName)

routeFullPathOf(routePath) == RoutesRoot \o pathOf(routePath)

ObjectEntry(name, route) == [t |-> "object", name |-> name, route |-> route]

\* the two mkdirSync calls; no existsSync comes before them
frontendDirs(f, rawModuleName, routePath) ==
    mkdirSync(mkdirSync(f, Append(modulePathOf(rawModuleName), Seg("components"))),
              routeFullPathOf(routePath))

\* store.ts, types.ts, service.ts, values.ts, <Pascal>Page.svelte, +page.svelte
frontendFiles(f, rawModuleName, routePath) ==
    LET dir == modulePathOf(rawModuleName)
        page == toPascal(rawModuleName) \o <<"Page.svelte">>
        text(kind) == [kind |-> kind, name |-> rawModuleName, by |-> "create"]
        f1 == writeFileSync(f, Append(dir, Seg("store.ts")), text("store"))
        f2 == writeFileSync(f1, Append(dir, Seg("types.ts")), text("types"))
        f3 == writeFileSync(f2, Append(dir, Seg("service.ts")), text("service"))
        f4 == writeFileSync(f3, Append(dir, Seg("values.ts")), text("values"))
        f5 == writeFileSync(f4, Append(dir, page), text("page component"))
    IN  writeFileSync(f5, Append(routeFullPathOf(routePath), Seg("+page.svelte")),
                      text("route page"))

\* appendFileSync(logFile, logLine)
frontendLog(f, rawModuleName, routePath) ==
    log(f, [msg |-> "Created module", name |-> rawModuleName, route |-> routePath])

\* jsonData after the read: the default when module.json is absent or does
\* not parse, and [] for a missing modules key
frontendRead(f) ==
    IF f.manifest.present /\ f.manifest.parses /\ f.manifest.hasModules
    THEN f.manifest.modules
    ELSE <<>>

\* push without the filter before it
frontendMergeNoFilter(modules, rawModuleName, routePath) ==
    Append(modules, ObjectEntry(rawModuleName, routePath))

\* the filter keeping only the objects of other names: the strings are lost
frontendMergeDropsStrings(modules, rawModuleName, routePath) ==
    Append(SelectSeq(modules, LAMBDA m : m.t = "object" /\ m.name # rawModuleName),
           ObjectEntry(rawModuleName, routePath))

\* filter((m) => m.name !== rawModuleName), then push; a string has no name
frontendMerge(modules, rawModuleName, routePath) ==
    Append(SelectSeq(modules, LAMBDA m : ~(m.t = "object" /\ m.name = rawModuleName)),
           ObjectEntry(rawModuleName, routePath))

\* writeFileSync(jsonFile, JSON.stringify(jsonData, null, 2))
writeManifest(f, modules) ==
    [f EXCEPT !.manifest = [present |-> TRUE, parses |-> TRUE, hasModules |-> TRUE,
                            modules |-> modules]]

frontendManifest(f, rawModuleName, routePath) ==
    writeManifest(f, frontendMerge(frontendRead(f), rawModuleName, routePath))

generateFrontendModule(f, inputName, route) ==
    LET rawModuleName == toKebab(inputName)
        routePath == routePathOf(rawModuleName, route)
        f1 == frontendDirs(f, rawModuleName, routePath)
        f2 == frontendFiles(f1, rawModuleName, routePath)
        f3 == frontendLog(f2, rawModuleName, routePath)
    IN  [code |-> 0, how |-> "done", fs |-> frontendManifest(f3, rawModuleName, routePath)]

-----------------------------------------------------------------------------
(* create-module.ts: the two stand-alone scripts.  They differ from the    *)
(* generators of the CLI in how they read module.json.                     *)

\* the front-end script: jsonData.modules.filter on a parsed module.json
\* that has no modules key is a TypeError, after the files and the log line
scriptFrontend(f, inputName, route) ==
    LET rawModuleName == toKebab(inputName)
        routePath == routePathOf(rawModuleName, route)
        f1 == frontendDirs(f, rawModuleName, routePath)
        f2 == frontendFiles(f1, rawModuleName, routePath)
        f3 == frontendLog(f2, rawModuleName, routePath)
    IN  IF f.manifest.present /\ f.manifest.parses /\ ~f.manifest.hasModules
        THEN [code |-> 1, how |-> "threw", fs |-> f3]
        ELSE [code |-> 0, how |-> "done",
              fs |-> frontendManifest(f3, rawModuleName, routePath)]

\* JSON.parse with no try around it
scriptManifestThrows(f) == f.manifest.present /\ ~f.manifest.parses

\* updateModuleJson of the script: json.modules.includes(pathString)
scriptUpdateModuleJson(f, pathString) ==
    LET json == IF f.manifest.present /\ f.manifest.hasModules
                THEN f.manifest.modules
                ELSE <<>>
        exists == \E i \in 1..Len(json) : json[i] = StringEntry(pathString)
    IN  IF exists THEN f ELSE writeManifest(f, Append(json, StringEntry(pathString)))

\* the back-end script: a usage error for an empty argument, then as
\* generateServerModule up to the log line
scriptBackend(f, rawPath) ==
    LET p == parseModulePath(rawPath)
        f1 == ensureHelper(f)
        f2 == writeModuleFiles(f1, p)
        f3 == writeRoutes(f2, p)
        f4 == log(f3, [msg |-> "Generated module", rawPath |-> rawPath])
    IN  IF rawPath = <<>> THEN [code |-> 1, how |-> "usage", fs |-> f]
        ELSE IF routeThrows(p.parts) THEN [code |-> 1, how |-> "threw", fs |-> f]
        ELSE IF moduleExists(f, p.folderPath) THEN [code |-> 1, how |-> "guard", fs |-> f]
        ELSE IF scriptManifestThrows(f4) THEN [code |-> 1, how |-> "threw", fs |-> f4]
        ELSE [code |-> 0, how |-> "done", fs |-> scriptUpdateModuleJson(f4, rawPath)]

-----------------------------------------------------------------------------
(* SpecCli: invocations of the two commands and of the two scripts, one    *)
(* after the other, in a project directory whose module.json is absent or  *)
(* is what an earlier session or an editor left there.                     *)

\* the <path> arguments tried: a, as, a/s and /a/
CliPaths == { <<"a">>, <<"a", "s">>, <<"a", "/", "s">>, <<"/", "a", "/">> }

\* the <name> arguments tried: A and a/s
CliNames == { <<"A">>, <<"a", "/", "s">> }

\* no -r, and -r s
CliRoutes == { NoRoute, Route(<<"s">>) }

\* a text that JSON.parse rejects
UnparsableManifest ==
    [present |-> TRUE, parses |-> FALSE, hasModules |-> FALSE, modules |-> <<>>]

\* what generateModuleJson writes: name, version, type and routes, no modules
generatedManifest ==
    [present |-> TRUE, parses |-> TRUE, hasModules |-> FALSE, modules |-> <<>>]

\* the manifest of a project whose module directories were removed by hand
LeftoverManifest ==
    [present |-> TRUE, parses |-> TRUE, hasModules |-> TRUE,
     modules |-> << StringEntry(<<"a">>), ObjectEntry(<<"a", "/", "s">>, <<"a", "/", "s">>) >>]

\* src/lib/helpers/response.ts after the user has changed its text
EditedHelper(f) ==
    writeFileSync(mkdirSync(f, HelperDir), HelperFile, [kind |-> "response helper, edited"])

CliManifests == {NoManifest, UnparsableManifest, generatedManifest, LeftoverManifest}

Ran(cmd, arg, route, r) ==
    [cmd |-> cmd, arg |-> arg, route |-> route, code |-> r.code, how |-> r.how,
     before |-> fs]

\* sv-modular create <name> [-r <path>]
Create(name, route) ==
    /\ nRuns < MaxRuns
    /\ LET r == generateFrontendModule(fs, name, route)
       IN  fs' = r.fs /\ run' = Ran("create", name, route, r)
    /\ nRuns' = nRuns + 1
    /\ UNCHANGED <<procs, failed, textVars, serviceVars>>

\* sv-modular create-server <path>
CreateServerCli(rawPath) ==
    /\ nRuns < MaxRuns
    /\ LET r == generateServerModule(fs, rawPath)
       IN  fs' = r.fs /\ run' = Ran("create-server", rawPath, NoRoute, r)
    /\ nRuns' = nRuns + 1
    /\ UNCHANGED <<procs, failed, textVars, serviceVars>>

\* tsx create-module.ts <name> [--route <path>]
CreateScript(name, route) ==
    /\ nRuns < MaxRuns
    /\ LET r == scriptFrontend(fs, name, route)
       IN  fs' = r.fs /\ run' = Ran("create script", name, route, r)
    /\ nRuns' = nRuns + 1
    /\ UNCHANGED <<procs, failed, textVars, serviceVars>>

\* bun run create-module.ts <path>
CreateServerScript(rawPath) ==
    /\ nRuns < MaxRuns
    /\ LET r == scriptBackend(fs, rawPath)
       IN  fs' = r.fs /\ run' = Ran("create-server script", rawPath, NoRoute, r)
    /\ nRuns' = nRuns + 1
    /\ UNCHANGED <<procs, failed, textVars, serviceVars>>

-----------------------------------------------------------------------------
(* SpecFail: create-server invocations in which a file system call throws. *)
(* mkdirSync, writeFileSync and appendFileSync throw on a failure (EACCES, *)
(* ENOSPC, ...); generateServerModule catches none of it, so the exception *)
(* ends node with code 1 at that call.  Only the read of module.json is    *)
(* inside a try.                                                           *)

Call(op, path, text) == [op |-> op, path |-> path, text |-> text]

\* the calls that change the directory, in the order generateServerModule
\* makes them when the guard has passed
serverCalls(f, rawPath, p) ==
    LET dir == moduleFolderFullPath(p.folderPath)
        name == p.moduleName.val
        route == buildRoutePath(p.parts)
        routeDir == routeDirOf(route)
        idDir == Append(routeDir, Seg("[id]"))
        json == IF f.manifest.present /\ f.manifest.parses /\ f.manifest.hasModules
                THEN f.manifest.modules
                ELSE <<>>
    IN  (IF existsSync(f, HelperDir) THEN <<>> ELSE <<Call("mkdir", HelperDir, <<>>)>>) \o
        (IF existsSync(f, HelperFile) THEN <<>>
         ELSE <<Call("write", HelperFile, [kind |-> "response helper"]),
                Call("log", <<>>, [msg |-> "Created response helper"])>>) \o
        << Call("mkdir", dir, <<>>),
           Call("write", Append(dir, Seg("types.ts")), [kind |-> "types", name |-> name]),
           Call("write", Append(dir, Seg("values.ts")), [kind |-> "values", name |-> name]),
           Call("write", Append(dir, Seg("services.ts")), [kind |-> "services", name |-> name]),
           Call("write", Append(dir, Seg("spec.md")),
                [kind |-> "spec", name |-> name, route |-> route]),
           Call("mkdir", routeDir, <<>>),
           Call("mkdir", idDir, <<>>),
           Call("write", Append(routeDir, Seg("+server.ts")),
                [kind |-> "route list", name |-> name, route |-> route,
                 modulePath |-> p.folderPath]),
           Call("write", Append(idDir, Seg("+server.ts")),
                [kind |-> "route detail", name |-> name, route |-> route,
                 modulePath |-> p.folderPath]),
           Call("log", <<>>, [msg |-> "Generated module", rawPath |-> rawPath]) >> \o
        (IF \E i \in 1..Len(json) : entryMatches(json[i], rawPath) THEN <<>>
         ELSE <<Call("manifest", <<>>, rawPath)>>)

doCall(f, c) ==
    CASE c.op = "mkdir" -> mkdirSync(f, c.path)
      [] c.op = "write" -> writeFileSync(f, c.path, c.text)
      [] c.op = "log" -> log(f, c.text)
      [] c.op = "manifest" -> updateModuleJson(f, c.text)

\* every call made although one of them threw
doCallsPastFailure(f, calls, n) ==
    LET RECURSIVE upTo(_)
        upTo(i) == IF i = 0 THEN f ELSE doCall(upTo(i - 1), calls[i])
    IN  upTo(Len(calls))

\* the first n calls
doCalls(f, calls, n) ==
    LET RECURSIVE upTo(_)
        upTo(i) == IF i = 0 THEN f ELSE doCall(upTo(i - 1), calls[i])
    IN  upTo(n)

\* generateServerModule when its k-th call throws
generateServerModuleFailing(f, rawPath, k) ==
    LET p == parseModulePath(rawPath)
    IN  IF routeThrows(p.parts) THEN [code |-> 1, how |-> "threw", fs |-> f]
        ELSE IF moduleExists(f, p.folderPath) THEN [code |-> 1, how |-> "guard", fs |-> f]
        ELSE IF k > Len(serverCalls(f, rawPath, p))
             THEN [code |-> 0, how |-> "done", fs |-> generateAfterGuard(f, rawPath, p)]
        ELSE [code |-> 1, how |-> "failed",
              fs |-> doCalls(f, serverCalls(f, rawPath, p), k - 1)]

\* invocations of one behaviour that a failing call ends
MaxFailures == 1

FailPaths == { <<"a">>, <<"/", "a", "/">>, <<"a", "/", "s">> }

callsOf(f, rawPath) == serverCalls(f, rawPath, parseModulePath(rawPath))

\* sv-modular create-server <path>, ended by its k-th call
CreateServerFails(rawPath, k) ==
    /\ nRuns < MaxRuns
    /\ Cardinality(failed) < MaxFailures
    /\ LET r == generateServerModuleFailing(fs, rawPath, k)
       IN  /\ r.how = "failed"
           /\ fs' = r.fs
           /\ run' = Ran("create-server", rawPath, NoRoute, r)
           /\ failed' = failed \cup {[n |-> nRuns + 1, rawPath |-> rawPath, k |-> k,
                                      calls |-> callsOf(fs, rawPath), fs |-> r.fs]}
    /\ nRuns' = nRuns + 1
    /\ UNCHANGED <<procs, textVars, serviceVars>>

-----------------------------------------------------------------------------
(* SpecSteps: CLI processes running at the same time in one project        *)
(* directory.  Each is a node process of its own; its synchronous file     *)
(* system calls take effect one after the other, and calls of another      *)
(* process may fall between any two of them.  The steps below are the      *)
(* statements of generateServerModule and generateFrontendModule in their  *)
(* order; the read of module.json and its write are two calls.             *)

\* processes of one behaviour
MaxProcs == 2

Procs == 1..MaxProcs

IdleProc ==
    [pc |-> "idle", cmd |-> "none", arg |-> <<>>, route |-> NoRoute, json |-> <<>>,
     did |-> <<>>]

IdleProcs == [p \in Procs |-> IdleProc]

\* the <path> and <name> arguments tried
StepPaths == { <<"a">>, <<"a", "/", "s">>, <<"/">> }
StepNames == { <<"a">>, <<"A", " ", "s">> }

\* p goes on to pc, having done step
Goes(p, pc, step) ==
    procs' = [procs EXCEPT ![p].pc = pc, ![p].did = Append(@, step)]

\* the shell starts sv-modular create-server <path>
InvokeCreateServer(p, rawPath) ==
    /\ procs[p].pc = "idle"
    /\ procs' = [procs EXCEPT ![p].pc = "guard", ![p].cmd = "create-server",
                              ![p].arg = rawPath]
    /\ UNCHANGED <<fs, run, nRuns, failed, textVars, serviceVars>>

\* the shell starts sv-modular create <name>
InvokeCreate(p, name, route) ==
    /\ procs[p].pc = "idle"
    /\ procs' = [procs EXCEPT ![p].pc = "dirs", ![p].cmd = "create",
                              ![p].arg = name, ![p].route = route]
    /\ UNCHANGED <<fs, run, nRuns, failed, textVars, serviceVars>>

\* generateServerModule: parseModulePath, buildRoutePath and the guard
Guard(p) ==
    /\ procs[p].pc = "guard"
    /\ LET parsed == parseModulePath(procs[p].arg)
       IN  IF routeThrows(parsed.parts) THEN Goes(p, "threw", "threw")
           ELSE IF moduleExists(fs, parsed.folderPath) THEN Goes(p, "exit 1", "guard")
           ELSE Goes(p, "helper", "guard")
    /\ UNCHANGED <<fs, run, nRuns, failed, textVars, serviceVars>>

\* generateServerModule: the response helper
Helper(p) ==
    /\ procs[p].pc = "helper"
    /\ fs' = ensureHelper(fs)
    /\ Goes(p, "files", "helper")
    /\ UNCHANGED <<run, nRuns, failed, textVars, serviceVars>>

\* generateServerModule: the module directory, its four files and the routes
ServerFiles(p) ==
    /\ procs[p].pc = "files"
    /\ procs[p].cmd = "create-server"
    /\ fs' = writeRoutes(writeModuleFiles(fs, parseModulePath(procs[p].arg)),
                         parseModulePath(procs[p].arg))
    /\ Goes(p, "log", "files")
    /\ UNCHANGED <<run, nRuns, failed, textVars, serviceVars>>

\* generateFrontendModule: the two mkdirSync calls
FrontendDirs(p) ==
    /\ procs[p].pc = "dirs"
    /\ LET rawModuleName == toKebab(procs[p].arg)
       IN  fs' = frontendDirs(fs, rawModuleName, routePathOf(rawModuleName, procs[p].route))
    /\ Goes(p, "files", "dirs")
    /\ UNCHANGED <<run, nRuns, failed, textVars, serviceVars>>

\* generateFrontendModule: the six files
FrontendFiles(p) ==
    /\ procs[p].pc = "files"
    /\ procs[p].cmd = "create"
    /\ LET rawModuleName == toKebab(procs[p].arg)
       IN  fs' = frontendFiles(fs, rawModuleName, routePathOf(rawModuleName, procs[p].route))
    /\ Goes(p, "log", "files")
    /\ UNCHANGED <<run, nRuns, failed, textVars, serviceVars>>

\* the line of the module that p generates
logLineOf(proc) ==
    IF proc.cmd = "create-server"
    THEN [msg |-> "Generated module", rawPath |-> proc.arg]
    ELSE [msg |-> "Created module", name |-> toKebab(proc.arg),
          route |-> routePathOf(toKebab(proc.arg), proc.route)]

\* the step without its appendFileSync
LogLineLeftOut(p) ==
    /\ procs[p].pc = "log"
    /\ Goes(p, "read", "skipped")
    /\ UNCHANGED <<fs, run, nRuns, failed, textVars, serviceVars>>

\* log(`Generated module: ...`), or appendFileSync(logFile, logLine)
LogLine(p) ==
    /\ procs[p].pc = "log"
    /\ fs' = log(fs, logLineOf(procs[p]))
    /\ Goes(p, "read", "log")
    /\ UNCHANGED <<run, nRuns, failed, textVars, serviceVars>>

\* existsSync, readFileSync and JSON.parse: json, or jsonData, of p
ReadManifest(p) ==
    /\ procs[p].pc = "read"
    /\ procs' = [procs EXCEPT ![p].pc = "write", ![p].json = frontendRead(fs),
                              ![p].did = Append(@, "read")]
    /\ UNCHANGED <<fs, run, nRuns, failed, textVars, serviceVars>>

\* what p makes of the entries it read
mergedBy(proc) ==
    IF proc.cmd = "create-server"
    THEN (IF \E i \in 1..Len(proc.json) : entryMatches(proc.json[i], proc.arg)
          THEN proc.json
          ELSE Append(proc.json, StringEntry(proc.arg)))
    ELSE frontendMerge(proc.json, toKebab(proc.arg),
                       routePathOf(toKebab(proc.arg), proc.route))

\* the write leaving out what was read
manifestAfterWriteDropsRead(f, proc) ==
    IF proc.cmd = "create-server"
    THEN writeManifest(f, <<StringEntry(proc.arg)>>)
    ELSE writeManifest(f, <<ObjectEntry(toKebab(proc.arg),
                                        routePathOf(toKebab(proc.arg), proc.route))>>)

\* writeFileSync(file, JSON.stringify(json, null, 2)); create-server writes
\* only when it pushed
manifestAfterWrite(f, proc) ==
    IF proc.cmd = "create-server" /\ mergedBy(proc) = proc.json THEN f
    ELSE writeManifest(f, mergedBy(proc))

WriteManifest(p) ==
    /\ procs[p].pc = "write"
    /\ fs' = manifestAfterWrite(fs, procs[p])
    /\ Goes(p, "done", "manifest")
    /\ UNCHANGED <<run, nRuns, failed, textVars, serviceVars>>

-----------------------------------------------------------------------------
(* JSON values of a request body and the coercions the service applies.    *)

JUndefined == [t |-> "undefined"]
JNull == [t |-> "null"]
JStr(s) == [t |-> "string", s |-> s]
JNum(n) == [t |-> "number", n |-> n]

\* the value a record holds for a JSON value: the characters of a string, the
\* number of a number, and undefined or null as they are
jsValue(v) == IF v.t = "string" THEN v.s ELSE IF v.t = "number" THEN v.n ELSE v

\* !!v
truthy(v) ==
    \/ v.t = "string" /\ v.s # <<>>
    \/ v.t = "number" /\ v.n # 0

DigitChars == <<"0", "1", "2", "3", "4", "5", "6", "7", "8", "9">>

IsDigit(c) == \E d \in 1..10 : DigitChars[d] = c

DigitValue(c) == (CHOOSE d \in 1..10 : DigitChars[d] = c) - 1

RECURSIVE DecimalValue(_)
DecimalValue(s) ==
    IF s = <<>> THEN 0
    ELSE 10 * DecimalValue(SubSeq(s, 1, Len(s) - 1)) + DigitValue(s[Len(s)])

NaN == [nan |-> TRUE, n |-> 0]
Num(n) == [nan |-> FALSE, n |-> n]

\* Number(string), for strings of digits, letters and white space: the
\* trimmed string is empty (0), a decimal literal, or not a number
NumberOfString(s) ==
    LET t == trim(s)
    IN  IF t = <<>> THEN Num(0)
        ELSE IF \A i \in 1..Len(t) : IsDigit(t[i]) THEN Num(DecimalValue(t))
        ELSE NaN

\* Number(v)
Number(v) ==
    CASE v.t = "number" -> Num(v.n)
      [] v.t = "string" -> NumberOfString(v.s)
      [] v.t = "null" -> Num(0)
      [] OTHER -> NaN

\* Number(v) || 0
NumberOrZero(v) == IF Number(v).nan THEN 0 ELSE Number(v).n

\* v ?? "" for a string-typed field
orEmptyString(v) == IF v.t \in {"undefined", "null"} THEN <<>> ELSE v.s

\* String.prototype.includes
includes(hay, needle) ==
    \E i \in 1..(Len(hay) + 1) :
        /\ i + Len(needle) - 1 <= Len(hay)
        /\ SubSeq(hay, i, i + Len(needle) - 1) = needle

-----------------------------------------------------------------------------
(* values.ts as templateValues writes it.                                  *)

\* Array.from({ length: 5 })
SeedCount == 5

\* capitalize(str)
capitalize(str) == IF str = <<>> THEN str ELSE <<UpperChar(str[1])>> \o Tail(str)

\* the module the service was generated for
ModuleName == <<"s", "o", "n", "g">>

\* `${i}` for a one-digit i
digits(i) == <<DigitChars[i + 1]>>

\* crypto.randomUUID() returns a value it has not returned before: the k-th
\* value it hands out is k.  Identifiers that are no UUID of this process
\* are numbers below 1.
seedRecordSharedUuid(name, i) ==
    [id |-> 1,
     name |-> capitalize(name) \o <<" ", "U", "s", "e", "r", " ">> \o digits(i + 1),
     email |-> name \o digits(i + 1) \o <<"@example.com">>,
     address |-> <<"C", "i", "t", "y", " ">> \o digits(i + 1),
     age |-> 20 + i]

\* the i-th literal of the array, i from 0, evaluated when values.ts loads
seedRecord(name, i) ==
    [id |-> i + 1,
     name |-> capitalize(name) \o <<" ", "U", "s", "e", "r", " ">> \o digits(i + 1),
     email |-> name \o digits(i + 1) \o <<"@example.com">>,
     address |-> <<"C", "i", "t", "y", " ">> \o digits(i + 1),
     age |-> 20 + i]

templateValues(name) == [k \in 1..SeedCount |-> seedRecord(name, k - 1)]

-----------------------------------------------------------------------------
(* services.ts as templateServices writes it.  A response is its status    *)
(* and its data.                                                           *)

NoData == [t |-> "null"]

responseOk(data) == [status |-> 200, data |-> data]
responseCreated(data) == [status |-> 201, data |-> data]
responseBadRequest == [status |-> 400, data |-> NoData]
responseNotFound == [status |-> 404, data |-> NoData]

\* a query parameter: query.get(key) is null or a string
QNull == [t |-> "null"]

NoQuery == [given |-> FALSE]
Query(address, age, s) == [given |-> TRUE, address |-> address, age |-> age, s |-> s]

byAddress(list, address) ==
    IF truthy(address)
    THEN SelectSeq(list, LAMBDA x : toLowerCase(x.address) = toLowerCase(address.s))
    ELSE list

byAge(list, age) ==
    IF truthy(age) /\ ~Number(age).nan
    THEN SelectSeq(list, LAMBDA x : x.age = Number(age).n)
    ELSE list

bySearch(list, s) ==
    IF truthy(s)
    THEN SelectSeq(list, LAMBDA x : includes(toLowerCase(x.name), toLowerCase(s.s)))
    ELSE list

\* the address filter applied whenever the parameter is there, "" included
filterEmptyAddressApplies(fake, query) ==
    LET l1 == IF query.address.t = "string"
              THEN SelectSeq(fake, LAMBDA x : toLowerCase(x.address) = toLowerCase(query.address.s))
              ELSE fake
    IN  bySearch(byAge(l1, query.age), query.s)

\* filter<Class>(query)
filter(fake, query) == bySearch(byAge(byAddress(fake, query.address), query.age), query.s)

\* getAll<Class>(query?)
getAll(fake, query) ==
    IF ~query.given THEN responseOk(fake) ELSE responseOk(filter(fake, query))

\* findIndex((x) => x.id === id): 0 for -1
findIndex(fake, id) ==
    IF \E i \in 1..Len(fake) : fake[i].id = id
    THEN CHOOSE i \in 1..Len(fake) :
            /\ fake[i].id = id
            /\ \A j \in 1..(i - 1) : fake[j].id # id
    ELSE 0

\* splice(index, 1)
removeAt(fake, index) == SubSeq(fake, 1, index - 1) \o SubSeq(fake, index + 1, Len(fake))

BadBody == [parses |-> FALSE, fields |-> <<>>]
Body(fields) == [parses |-> TRUE, fields |-> fields]

\* body.key
field(body, key) == IF key \in DOMAIN body.fields THEN body.fields[key] ELSE JUndefined

\* the validation with && for ||
insertRejectsBothMissing(body) ==
    \/ ~body.parses
    \/ ~truthy(field(body, "name")) /\ ~truthy(field(body, "email"))

\* request.json() throws, or !body.name || !body.email
insertRejects(body) ==
    \/ ~body.parses
    \/ ~truthy(field(body, "name"))
    \/ ~truthy(field(body, "email"))

newItem(body, uuid) ==
    [id |-> uuid,
     name |-> jsValue(field(body, "name")),
     email |-> jsValue(field(body, "email")),
     address |-> orEmptyString(field(body, "address")),
     age |-> NumberOrZero(field(body, "age"))]

\* unshift for push
insertAtFront(fake, body, uuid) ==
    IF insertRejects(body) THEN [store |-> fake, response |-> responseBadRequest]
    ELSE [store |-> <<newItem(body, uuid)>> \o fake,
          response |-> responseCreated(newItem(body, uuid))]

\* insert<Class>(request): the store it leaves and its response
insert(fake, body, uuid) ==
    IF insertRejects(body) THEN [store |-> fake, response |-> responseBadRequest]
    ELSE [store |-> Append(fake, newItem(body, uuid)),
          response |-> responseCreated(newItem(body, uuid))]

\* { ...record, ...body }
merge(record, body) ==
    [k \in DOMAIN record |->
        IF k \in DOMAIN body.fields THEN jsValue(body.fields[k]) ELSE record[k]]

\* { ...body, ...record }: the fields of the old record win
editOldFieldsWin(fake, id, body) ==
    LET index == findIndex(fake, id)
    IN  IF index = 0 THEN [store |-> fake, response |-> responseNotFound]
        ELSE IF ~body.parses THEN [store |-> fake, response |-> [status |-> 500, data |-> NoData]]
        ELSE [store |-> fake, response |-> responseOk(fake[index])]

\* edit<Class>ById(id, request), served without another request in between;
\* a body that does not parse makes request.json() throw past the service (500)
edit(fake, id, body) ==
    LET index == findIndex(fake, id)
    IN  IF index = 0 THEN [store |-> fake, response |-> responseNotFound]
        ELSE IF ~body.parses THEN [store |-> fake, response |-> [status |-> 500, data |-> NoData]]
        ELSE [store |-> [fake EXCEPT ![index] = merge(@, body)],
              response |-> responseOk(merge(fake[index], body))]

\* the record filtered out of a copy, the array itself left as it was
deleteFromCopy(fake, id) ==
    LET index == findIndex(fake, id)
    IN  IF index = 0 THEN [store |-> fake, response |-> responseNotFound]
        ELSE [store |-> fake, response |-> responseOk(fake[index])]

\* findLastIndex for findIndex
deleteLastMatch(fake, id) ==
    IF findIndex(fake, id) = 0 THEN [store |-> fake, response |-> responseNotFound]
    ELSE LET index == CHOOSE i \in 1..Len(fake) :
                        /\ fake[i].id = id
                        /\ \A j \in (i + 1)..Len(fake) : fake[j].id # id
         IN  [store |-> removeAt(fake, index), response |-> responseOk(fake[index])]

\* delete<Class>ById(id)
delete(fake, id) ==
    LET index == findIndex(fake, id)
    IN  IF index = 0 THEN [store |-> fake, response |-> responseNotFound]
        ELSE [store |-> removeAt(fake, index), response |-> responseOk(fake[index])]

-----------------------------------------------------------------------------
(* SpecService: requests served one after the other by the service of one  *)
(* generated module.  Request bodies carry strings where the generated     *)
(* interface declares strings; age is whatever the client sends.           *)

\* successful inserts, deletes and updates of one behaviour
MaxInserts == 1
MaxDeletes == 2
MaxUpdates == 1

Ann == <<"A", "n", "n">>
Rome == <<"R", "o", "m", "e">>
Mail == <<"ann@example.com">>

\* request bodies of POST: one that is no JSON, five that lack a truthy name
\* or email, three that pass the validation
InsertBodies ==
    {BadBody} \cup
    { Body([name |-> n, email |-> e, address |-> JStr(Rome), age |-> JNum(21)]) :
        n \in {JUndefined, JStr(<<>>), JStr(Ann)}, e \in {JUndefined, JStr(Mail)} } \cup
    { Body([name |-> JStr(Ann), email |-> JStr(Mail)]),
      Body([name |-> JStr(Ann), email |-> JStr(Mail), address |-> JStr(Rome),
            age |-> JStr(<<"2", "1">>)]),
      Body([name |-> JStr(Ann), email |-> JStr(Mail), address |-> JNull,
            age |-> JStr(<<"a", "b", "c">>)]) }

\* request bodies of PUT
EditBodies ==
    { BadBody,
      Body([address |-> JStr(<<"r", "o", "m", "e">>)]),
      Body([name |-> JStr(<<"Z", "e", "d">>), age |-> JNum(21)]),
      Body([id |-> JNum(1)]) }

\* query strings of GET: every combination of these values, and no query
Queries ==
    {NoQuery} \cup
    { Query(a, g, s) :
        a \in {QNull, JStr(<<>>), JStr(<<"C", "I", "T", "Y", " ", "2">>), JStr(<<"O", "s", "l", "o">>)},
        g \in {QNull, JStr(<<>>), JStr(<<"2", "1">>), JStr(<<"a", "b", "c">>)},
        s \in {QNull, JStr(<<"U", "S", "E", "R">>)} }

NoCount == [inserts |-> 0, deletes |-> 0, updates |-> 0]

\* the store, the UUIDs handed out and the changes counted, as one value
Service == [store |-> store, nextUuid |-> nextUuid, count |-> count]

InitialService ==
    [store |-> templateValues(ModuleName), nextUuid |-> SeedCount, count |-> NoCount]

\* the identifiers a client asks for: none the process handed out (0), the
\* first and the third seed record, the newest value handed out
RequestIds(st) == {0, 1, 3, st.nextUuid}

insertAllowed(st, body) ==
    IF insertRejects(body) THEN TRUE ELSE st.count.inserts < MaxInserts

deleteAllowed(st, id) ==
    IF findIndex(st.store, id) = 0 THEN TRUE ELSE st.count.deletes < MaxDeletes

editAllowed(st, id, body) ==
    IF findIndex(st.store, id) = 0 \/ ~body.parses THEN TRUE
    ELSE st.count.updates < MaxUpdates

\* POST: insert<Class>(request) with the next UUID
afterInsert(st, body) ==
    LET r == insert(st.store, body, st.nextUuid + 1)
        created == r.response.status = 201
    IN  [store |-> r.store,
         nextUuid |-> IF created THEN st.nextUuid + 1 ELSE st.nextUuid,
         count |-> IF created THEN [st.count EXCEPT !.inserts = @ + 1] ELSE st.count,
         response |-> r.response]

\* DELETE: delete<Class>ById(id)
afterDelete(st, id) ==
    LET r == delete(st.store, id)
    IN  [store |-> r.store, nextUuid |-> st.nextUuid,
         count |-> IF r.response.status = 200
                   THEN [st.count EXCEPT !.deletes = @ + 1] ELSE st.count,
         response |-> r.response]

\* PUT: edit<Class>ById(id, request)
afterEdit(st, id, body) ==
    LET r == edit(st.store, id, body)
    IN  [store |-> r.store, nextUuid |-> st.nextUuid,
         count |-> IF r.response.status = 200
                   THEN [st.count EXCEPT !.updates = @ + 1] ELSE st.count,
         response |-> r.response]

Insert(body) ==
    /\ insertAllowed(Service, body)
    /\ LET r == afterInsert(Service, body)
       IN  /\ store' = r.store
           /\ nextUuid' = r.nextUuid
           /\ count' = r.count
           /\ last' = [op |-> "insert", body |-> body, status |-> r.response.status,
                       data |-> r.response.data, before |-> store,
                       uuidsBefore |-> nextUuid]
    /\ UNCHANGED <<inFlight, textVars, cliVars>>

Delete(id) ==
    /\ deleteAllowed(Service, id)
    /\ LET r == afterDelete(Service, id)
           followsInsert == last.op = "insert" /\ last.status = 201 /\ last.data.id = id
       IN  /\ store' = r.store
           /\ nextUuid' = r.nextUuid
           /\ count' = r.count
           /\ last' = [op |-> "delete", id |-> id, status |-> r.response.status,
                       data |-> r.response.data, before |-> store,
                       followsInsert |-> followsInsert,
                       beforeInsert |-> IF followsInsert THEN last.before ELSE <<>>]
    /\ UNCHANGED <<inFlight, textVars, cliVars>>

Edit(id, body) ==
    /\ editAllowed(Service, id, body)
    /\ LET r == afterEdit(Service, id, body)
       IN  /\ store' = r.store
           /\ nextUuid' = r.nextUuid
           /\ count' = r.count
           /\ last' = [op |-> "edit", id |-> id, body |-> body,
                       status |-> r.response.status, data |-> r.response.data,
                       before |-> store]
    /\ UNCHANGED <<inFlight, textVars, cliVars>>

\* GET: getAll<Class>(query), the first request SpecList records
List(query) ==
    /\ last.op = "earlier"
    /\ LET r == getAll(store, query)
       IN  last' = [op |-> "list", query |-> query, status |-> r.status, data |-> r.data,
                    before |-> store]
    /\ UNCHANGED <<store, nextUuid, count, inFlight, textVars, cliVars>>

\* what one more POST, DELETE or PUT makes of st
Successors(st) ==
    LET drop(r) == [store |-> r.store, nextUuid |-> r.nextUuid, count |-> r.count]
    IN  {drop(afterInsert(st, body)) : body \in {b \in InsertBodies : insertAllowed(st, b)}}
        \cup {drop(afterDelete(st, id)) : id \in {i \in RequestIds(st) : deleteAllowed(st, i)}}
        \cup {drop(afterEdit(st, x[1], x[2])) :
                x \in {y \in RequestIds(st) \X EditBodies : editAllowed(st, y[1], y[2])}}

\* seen, and everything some sequence of requests makes of a member of fresh
RECURSIVE Closure(_, _)
Closure(seen, fresh) ==
    IF fresh = {} THEN seen
    ELSE LET all == seen \cup fresh
         IN  Closure(all, (UNION {Successors(st) : st \in fresh}) \ all)

\* the services that requests make of st, st included
ReachableFrom(st) == Closure({}, {st})

-----------------------------------------------------------------------------
(* SpecRoutes: the handlers of /api/<route>/[id], requests served one      *)
(* after the other.  params.id is absent or a text; the record whose id    *)
(* is the k-th UUID is reached by the text digits(k) and by no other.      *)

NoParam == Undefined
Param(text) == [def |-> TRUE, val |-> text]

\* the identifier that x.id === id compares the stored ones with
idOfText(text) ==
    IF Len(text) = 1 /\ IsDigit(text[1]) THEN DigitValue(text[1]) ELSE 0

\* get<Class>ById(id)
getById(fake, id) ==
    IF findIndex(fake, id) = 0 THEN responseNotFound
    ELSE responseOk(fake[findIndex(fake, id)])

\* the identifier trimmed before it is handed on
validateIdTrims(id) ==
    IF ~id.def \/ id.val = <<>> \/ trim(id.val) = <<>> THEN Undefined
    ELSE Param(trim(id.val))

\* validateId(id): null, or the id as it came
validateId(id) ==
    IF ~id.def \/ id.val = <<>> \/ trim(id.val) = <<>> THEN Undefined ELSE id

routeGET(fake, param) ==
    LET id == validateId(param)
    IN  IF ~id.def THEN [store |-> fake, response |-> responseBadRequest]
        ELSE [store |-> fake, response |-> getById(fake, idOfText(id.val))]

routePUT(fake, param, body) ==
    LET id == validateId(param)
    IN  IF ~id.def THEN [store |-> fake, response |-> responseBadRequest]
        ELSE edit(fake, idOfText(id.val), body)

routeDELETE(fake, param) ==
    LET id == validateId(param)
    IN  IF ~id.def THEN [store |-> fake, response |-> responseBadRequest]
        ELSE delete(fake, idOfText(id.val))

\* the params.id tried: absent, "", " ", "  ", "1", " 1", "3 ", "3" and "9"
RouteParams ==
    { NoParam, Param(<<>>), Param(<<" ">>), Param(<<" ", " ">>), Param(<<"1">>),
      Param(<<" ", "1">>), Param(<<"3", " ">>), Param(<<"3">>), Param(<<"9">>) }

Handled(method, param, body, r) ==
    /\ store' = r.store
    /\ last' = [op |-> method, param |-> param, body |-> body,
                status |-> r.response.status, data |-> r.response.data,
                before |-> store]
    /\ count' = [count EXCEPT
                    !.deletes = IF method = "DELETE" /\ r.response.status = 200
                                THEN @ + 1 ELSE @,
                    !.updates = IF method = "PUT" /\ r.response.status = 200
                                THEN @ + 1 ELSE @]
    /\ UNCHANGED <<nextUuid, inFlight, textVars, cliVars>>

RouteGet(param) ==
    Handled("GET", param, BadBody, routeGET(store, param))

RoutePut(param, body) ==
    /\ IF routePUT(store, param, body).response.status = 200
       THEN count.updates < MaxUpdates ELSE TRUE
    /\ Handled("PUT", param, body, routePUT(store, param, body))

RouteDelete(param) ==
    /\ IF routeDELETE(store, param).response.status = 200
       THEN count.deletes < MaxDeletes ELSE TRUE
    /\ Handled("DELETE", param, BadBody, routeDELETE(store, param))

-----------------------------------------------------------------------------
(* SpecRace: requests served by one node process at the same time.  A      *)
(* handler runs until it awaits: edit<Class>ById awaits request.json()     *)
(* after findIndex, so other handlers run between its lookup and its       *)
(* write; insert and delete touch the array in one piece.                  *)

\* updates awaiting their body at one moment
MaxInFlight == 1

\* an array slot that was never assigned
Hole == [hole |-> TRUE]

\* { ...undefined, ...body }
bodyOnly(body) == [k \in DOMAIN body.fields |-> jsValue(body.fields[k])]

\* FAKE[index] = { ...FAKE[index], ...body } with the index found before the
\* await: an index past the end makes the array longer, with holes between
writeAt(fake, index, body) ==
    IF index <= Len(fake) THEN [fake EXCEPT ![index] = merge(@, body)]
    ELSE fake \o [i \in 1..(index - Len(fake) - 1) |-> Hole] \o <<bodyOnly(body)>>

\* every slot holds a record with an id: findIndex reads x.id of every slot
\* up to the match, and throws on a hole
Intact(fake) == \A i \in 1..Len(fake) : "id" \in DOMAIN fake[i]

RaceIds == {0, 1, 3, 5}

RaceEditBodies == { BadBody, Body([name |-> JStr(<<"Z", "e", "d">>), age |-> JNum(21)]) }

RaceInsertBody == Body([name |-> JStr(Ann), email |-> JStr(Mail)])

\* edit<Class>ById up to its await: findIndex and the 404
RaceLookup(id, body) ==
    /\ Intact(store)
    /\ LET index == findIndex(store, id)
       IN  IF index = 0
           THEN /\ inFlight' = inFlight
                /\ last' = [op |-> "lookup", id |-> id, status |-> 404, before |-> store]
           ELSE /\ Cardinality(inFlight) < MaxInFlight
                /\ count.updates + Cardinality(inFlight) < MaxUpdates
                /\ inFlight' = inFlight \cup {[id |-> id, index |-> index, body |-> body]}
                /\ last' = [op |-> "lookup", id |-> id, status |-> 0, before |-> store]
    /\ UNCHANGED <<store, nextUuid, count, textVars, cliVars>>

\* edit<Class>ById after its await: request.json() throws, or the write
RaceWrite(e) ==
    /\ e \in inFlight
    /\ Intact(store)
    /\ inFlight' = inFlight \ {e}
    /\ IF ~e.body.parses
       THEN /\ UNCHANGED <<store, count>>
            /\ last' = [op |-> "write", id |-> e.id, index |-> e.index, status |-> 500,
                        before |-> store]
       ELSE /\ store' = writeAt(store, e.index, e.body)
            /\ count' = [count EXCEPT !.updates = @ + 1]
            /\ last' = [op |-> "write", id |-> e.id, index |-> e.index, status |-> 200,
                        before |-> store]
    /\ UNCHANGED <<nextUuid, textVars, cliVars>>

\* delete<Class>ById of another request
RaceDelete(id) ==
    /\ Intact(store)
    /\ deleteAllowed(Service, id)
    /\ LET r == afterDelete(Service, id)
       IN  /\ store' = r.store
           /\ count' = r.count
           /\ last' = [op |-> "delete", id |-> id, status |-> r.response.status,
                       before |-> store]
    /\ UNCHANGED <<nextUuid, inFlight, textVars, cliVars>>

\* insert<Class> of another request, from its await on
RaceInsert ==
    /\ Intact(store)
    /\ insertAllowed(Service, RaceInsertBody)
    /\ LET r == afterInsert(Service, RaceInsertBody)
       IN  /\ store' = r.store
           /\ nextUuid' = r.nextUuid
           /\ count' = r.count
           /\ last' = [op |-> "insert", status |-> r.response.status, before |-> store]
    /\ UNCHANGED <<inFlight, textVars, cliVars>>

-----------------------------------------------------------------------------
(* The specifications.  Each leaves the variables of the others at   *)
(* their initial values.                                                   *)

TextIdle == input = <<>> /\ out = NoOut
CliIdle ==
    fs = EmptyFs /\ run = NoRun /\ nRuns = 0 /\ procs = IdleProcs /\ failed = {}
ServiceIdle ==
    /\ store = InitialService.store
    /\ nextUuid = InitialService.nextUuid
    /\ count = InitialService.count
    /\ last = [op |-> "init"]
    /\ inFlight = {}

\* Spec: the CLI in a project directory
Init == TextIdle /\ CliIdle /\ ServiceIdle

Next == \E rawPath \in RawPaths : CreateServer(rawPath)

Spec == Init /\ [][Next]_vars

\* SpecText: one helper applied to one string
InitText == input \in Strings(MaxLen) /\ out = NoOut /\ CliIdle /\ ServiceIdle

NextText ==
    \/ ApplyToKebab
    \/ ApplyPlural
    \/ ApplyParseModulePath
    \/ ApplyBuildRoutePath

SpecText == InitText /\ [][NextText]_vars

\* SpecService: POST, DELETE and PUT requests served one after the other
InitService == TextIdle /\ CliIdle /\ ServiceIdle

NextService ==
    \/ \E body \in InsertBodies : Insert(body)
    \/ \E id \in RequestIds(Service) : Delete(id)
    \/ \E id \in RequestIds(Service), body \in EditBodies : Edit(id, body)

SpecService == InitService /\ [][NextService]_vars

\* SpecList: a GET served by a service that SpecService reaches
InitList ==
    /\ TextIdle
    /\ CliIdle
    /\ \E st \in ReachableFrom(InitialService) :
          /\ store = st.store
          /\ nextUuid = st.nextUuid
          /\ count = st.count
    /\ last = [op |-> "earlier"]
    /\ inFlight = {}

NextList == \E query \in Queries : List(query)

SpecList == InitList /\ [][NextList]_vars

\* SpecCli: the commands and the scripts, one invocation after the other
InitCli ==
    /\ TextIdle
    /\ ServiceIdle
    /\ run = NoRun
    /\ nRuns = 0
    /\ procs = IdleProcs
    /\ failed = {}
    /\ \E m \in CliManifests, helper \in {"absent", "edited"} :
          fs = IF helper = "absent" THEN [EmptyFs EXCEPT !.manifest = m]
               ELSE EditedHelper([EmptyFs EXCEPT !.manifest = m])

NextCli ==
    \/ \E name \in CliNames, route \in CliRoutes : Create(name, route)
    \/ \E rawPath \in CliPaths : CreateServerCli(rawPath)
    \/ \E name \in CliNames : CreateScript(name, NoRoute)
    \/ \E rawPath \in CliPaths \cup {<<>>} : CreateServerScript(rawPath)

SpecCli == InitCli /\ [][NextCli]_vars

\* SpecRoutes: GET, PUT and DELETE on /api/<route>/[id]
NextRoutes ==
    \/ \E param \in RouteParams : RouteGet(param)
    \/ \E param \in RouteParams, body \in EditBodies : RoutePut(param, body)
    \/ \E param \in RouteParams : RouteDelete(param)

SpecRoutes == InitService /\ [][NextRoutes]_vars

\* SpecRace: PUT, DELETE and POST requests in one process at the same time
NextRace ==
    \/ \E id \in RaceIds, body \in RaceEditBodies : RaceLookup(id, body)
    \/ \E e \in inFlight : RaceWrite(e)
    \/ \E id \in RaceIds : RaceDelete(id)
    \/ RaceInsert

SpecRace == InitService /\ [][NextRace]_vars

\* SpecFail: create-server invocations, some ended by a failing call, in a new
\* project and in one whose module directories were removed by hand
NextFail ==
    \/ \E rawPath \in FailPaths : CreateServerCli(rawPath)
    \/ \E rawPath \in FailPaths :
          \E k \in 1..Len(callsOf(fs, rawPath)) : CreateServerFails(rawPath, k)

InitFail ==
    /\ TextIdle
    /\ ServiceIdle
    /\ run = NoRun
    /\ nRuns = 0
    /\ procs = IdleProcs
    /\ failed = {}
    /\ fs \in {EmptyFs, EditedHelper([EmptyFs EXCEPT !.manifest = LeftoverManifest])}

SpecFail == InitFail /\ [][NextFail]_vars

\* SpecShare: the two commands of the CLI, one invocation after the other
NextShare ==
    \/ \E name \in CliNames, route \in CliRoutes : Create(name, route)
    \/ \E rawPath \in CliPaths : CreateServerCli(rawPath)

SpecShare == InitCli /\ [][NextShare]_vars

\* SpecSteps: processes of the CLI running at the same time
InitSteps == TextIdle /\ CliIdle /\ ServiceIdle

NextSteps ==
    \/ \E p \in Procs, rawPath \in StepPaths : InvokeCreateServer(p, rawPath)
    \/ \E p \in Procs, name \in StepNames : InvokeCreate(p, name, NoRoute)
    \/ \E p \in Procs : Guard(p)
    \/ \E p \in Procs : Helper(p)
    \/ \E p \in Procs : ServerFiles(p)
    \/ \E p \in Procs : FrontendDirs(p)
    \/ \E p \in Procs : FrontendFiles(p)
    \/ \E p \in Procs : LogLine(p)
    \/ \E p \in Procs : ReadManifest(p)
    \/ \E p \in Procs : WriteManifest(p)

SpecSteps == InitSteps /\ [][NextSteps]_vars

-----------------------------------------------------------------------------
(* The claims.                                                             *)

\* the module directory of the last invocation, src/lib/modules/<folderPath>
RunModuleDir == moduleFolderFullPath(parseModulePath(run.rawPath).folderPath)

\* C1: a create-server invocation that finds its module directory already
\* there exits with code 1 and leaves the project directory as it was: no
\* file, no directory, no module.log line and no module.json entry is added.
C1_GuardLeavesProjectUnchanged ==
    (run.cmd = "create-server" /\ RunModuleDir \in run.before.dirs)
        => (run.code = 1 /\ fs = run.before)

\* the second invocation with a path that an earlier invocation generated
C1_Witness ==
    /\ run.cmd = "create-server"
    /\ RunModuleDir \in run.before.dirs
    /\ run.how = "guard"
    /\ \E i \in 1..Len(run.before.manifest.modules) :
          run.before.manifest.modules[i] = StringEntry(run.rawPath)
    /\ Append(RunModuleDir, Seg("types.ts")) \in DOMAIN fs.files

C3_PluralCases ==
    out.fn = "plural" =>
        LET x == input
            r == out.res
            n == Len(x)
        IN  /\ (n > 0 /\ x[n] = "s") => r = x
            /\ (n > 0 /\ x[n] = "y") => r = SubSeq(x, 1, n - 1) \o <<"i", "e", "s">>
            /\ (n = 0 \/ x[n] \notin {"s", "y"}) => r = Append(x, "s")
            /\ r # <<>> /\ r[Len(r)] = "s"
            /\ plural(r) = r

C3_Witness ==
    /\ out.fn = "plural"
    /\ Len(input) > 1
    /\ input[Len(input)] = "y"
    /\ Len(out.res) = Len(input) + 2

\* a string with some character that is no white space
HasVisibleChar(v) == \E i \in 1..Len(v) : ~IsSpace(v[i])

NoStraySlash(path) ==
    /\ path # <<>> => (path[1] # "/" /\ path[Len(path)] # "/")
    /\ \A i \in 1..(Len(path) - 1) : ~(path[i] = "/" /\ path[i + 1] = "/")

\* C4 as stated: parseModulePath discards exactly the empty segments, keeps
\* the others in order, joins them into folderPath with single slashes and
\* names the module after the last of them.
C4_AsStated ==
    out.fn = "parseModulePath" =>
        LET kept == SelectSeq(split(input, "/"), LAMBDA v : v # <<>>)
        IN  /\ out.res.parts = kept
            /\ out.res.folderPath = join(kept, "/")
            /\ NoStraySlash(out.res.folderPath)
            /\ out.res.moduleName = lastOf(kept)

\* C4, amended: parseModulePath discards every segment that is empty or holds
\* only white space, keeps the others in order and untrimmed, joins them
\* into folderPath with single slashes (no leading, trailing or doubled
\* slash) and names the module after the last of them; when no segment is
\* left the module name is undefined and folderPath is empty.
C4_ParseDropsBlankSegments ==
    out.fn = "parseModulePath" =>
        LET kept == SelectSeq(split(input, "/"), HasVisibleChar)
        IN  /\ out.res.parts = kept
            /\ out.res.folderPath = join(kept, "/")
            /\ NoStraySlash(out.res.folderPath)
            /\ kept # <<>> => out.res.moduleName = Defined(kept[Len(kept)])
            /\ kept = <<>> => (out.res.moduleName = Undefined /\ out.res.folderPath = <<>>)

\* a segment of white space dropped between two slashes, a segment kept
C4_Witness ==
    /\ out.fn = "parseModulePath"
    /\ \E i \in 1..Len(split(input, "/")) :
          split(input, "/")[i] # <<>> /\ ~HasVisibleChar(split(input, "/")[i])
    /\ Len(out.res.parts) = 1
    /\ Len(split(input, "/")) = 3

\* C5: toKebab applied to a result of toKebab returns it unchanged.
C5_ToKebabIdempotent ==
    out.fn = "toKebab" => toKebab(out.res) = out.res

\* an input that toKebab trims, lowers and hyphenates in two places
C5_Witness ==
    /\ out.fn = "toKebab"
    /\ Len(out.res) < Len(input)
    /\ \E i, j \in 1..Len(out.res) : i + 1 < j /\ out.res[i] = "-" /\ out.res[j] = "-"

\* C6: a delete-by-id with the identifier that the insert just before it
\* returned succeeds and leaves the store as it was before that insert: the
\* same records in the same order.
C6_InsertThenDeleteRestores ==
    (last.op = "delete" /\ last.followsInsert) =>
        /\ last.status = 200
        /\ store = last.beforeInsert
        /\ Len(store) = Len(last.beforeInsert)

\* the insert came after an update had changed the store
C6_Witness ==
    /\ last.op = "delete"
    /\ last.followsInsert
    /\ count.updates > 0
    /\ store # templateValues(ModuleName)

\* a query parameter that is there and not empty
Given(v) == v.t = "string" /\ v.s # <<>>

\* a string of decimal digits
IsDecimal(s) == s # <<>> /\ \A i \in 1..Len(s) : s[i] \in {DigitChars[d] : d \in 1..10}

SameIgnoringCase(a, b) == toLowerCase(a) = toLowerCase(b)

ContainsIgnoringCase(hay, needle) ==
    \E i \in 0..(Len(hay) - Len(needle)) :
        \A k \in 1..Len(needle) : LowerChar(hay[i + k]) = LowerChar(needle[k])

\* C7 as stated: the list holds, in store order, the records that satisfy
\* every filter the query supplies, the empty address included; the store is
\* left unchanged.
C7_AsStated ==
    (last.op = "list" /\ last.query.given) =>
        LET q == last.query
            wanted(x) ==
                /\ q.address.t = "string" => SameIgnoringCase(x.address, q.address.s)
                /\ (q.age.t = "string" /\ IsDecimal(q.age.s)) => x.age = DecimalValue(q.age.s)
                /\ q.s.t = "string" => ContainsIgnoringCase(x.name, q.s.s)
        IN  /\ last.status = 200
            /\ last.data = SelectSeq(store, wanted)
            /\ store = last.before

\* C7, amended: the list holds, in store order, exactly the records of the
\* store that satisfy every filter whose value is not empty (address equal
\* ignoring case, age equal to the number when the value is one, name
\* containing the search ignoring case); an empty value is no filter; with
\* no filter it holds every record; the store is left unchanged.
C7_ListAppliesNonEmptyFilters ==
    last.op = "list" =>
        LET q == last.query
            wanted(x) ==
                /\ Given(q.address) => SameIgnoringCase(x.address, q.address.s)
                /\ (Given(q.age) /\ IsDecimal(q.age.s)) => x.age = DecimalValue(q.age.s)
                /\ Given(q.s) => ContainsIgnoringCase(x.name, q.s.s)
        IN  /\ last.status = 200
            /\ last.data = IF q.given THEN SelectSeq(store, wanted) ELSE store
            /\ (q.given /\ ~Given(q.address) /\ ~Given(q.age) /\ ~Given(q.s))
                  => last.data = store
            /\ store = last.before

\* three filters that together keep one record of a store that is no longer
\* the seed
C7_Witness ==
    /\ last.op = "list"
    /\ last.query.given
    /\ Given(last.query.address) /\ Given(last.query.age) /\ Given(last.query.s)
    /\ Len(last.data) = 1
    /\ Len(store) > 1
    /\ store # templateValues(ModuleName)

\* C8: before any request the store holds exactly 5 records, of ages 20, 21,
\* 22, 23, 24 in that order, with pairwise distinct identifiers.
C8_SeedStore ==
    last.op = "init" =>
        /\ Len(store) = 5
        /\ \A i \in 1..Len(store) : store[i].age = 19 + i
        /\ \A i, j \in 1..Len(store) : i # j => store[i].id # store[j].id

C8_Witness ==
    /\ last.op = "init"
    /\ Len(store) = SeedCount
    /\ store[1].age = 20

\* false, 0, "", null or undefined
Falsy(v) ==
    \/ v.t \in {"undefined", "null"}
    \/ v.t = "string" /\ v.s = <<>>
    \/ v.t = "number" /\ v.n = 0

Missing(body, key) == key \notin DOMAIN body.fields \/ Falsy(body.fields[key])

\* C9: an insert whose body is no JSON, or lacks a truthy name or a truthy
\* email, answers 400 and leaves the store unchanged.
C9_InsertRejectsBadPayload ==
    (last.op = "insert"
        /\ (~last.body.parses \/ Missing(last.body, "name") \/ Missing(last.body, "email")))
    => (last.status = 400 /\ store = last.before /\ nextUuid = last.uuidsBefore)

\* a name without an email, sent to a store that requests have changed
C9_Witness ==
    /\ last.op = "insert"
    /\ last.body.parses
    /\ ~Missing(last.body, "name")
    /\ Missing(last.body, "email")
    /\ last.status = 400
    /\ count.inserts > 0

\* C10: a successful insert answers 201 with the new record, which it has
\* appended at the end of the store, every earlier record unchanged and in
\* its place; the record has an identifier no record had and none was given
\* before, the name and email of the body, the address of the body or "",
\* and as age the number the body's age coerces to, or 0.
C10_InsertAppendsOne ==
    (last.op = "insert" /\ last.status = 201) =>
        LET item == last.data
            body == last.body
            age == IF "age" \in DOMAIN body.fields THEN body.fields.age ELSE JUndefined
            address == IF "address" \in DOMAIN body.fields THEN body.fields.address ELSE JUndefined
        IN  /\ Len(store) = Len(last.before) + 1
            /\ SubSeq(store, 1, Len(last.before)) = last.before
            /\ store[Len(store)] = item
            /\ \A i \in 1..Len(last.before) : last.before[i].id # item.id
            /\ item.id > last.uuidsBefore
            /\ item.name = body.fields.name.s
            /\ item.email = body.fields.email.s
            /\ item.address = (IF address.t = "string" THEN address.s ELSE <<>>)
            /\ item.age = (CASE age.t = "number" -> age.n
                             [] age.t = "string" /\ IsDecimal(age.s) -> DecimalValue(age.s)
                             [] OTHER -> 0)

\* an age given as a string of digits, after a delete and another change
C10_Witness ==
    /\ last.op = "insert"
    /\ last.status = 201
    /\ "age" \in DOMAIN last.body.fields
    /\ last.body.fields.age = JStr(<<"2", "1">>)
    /\ last.data.age = 21
    /\ last.before # templateValues(ModuleName)
    /\ Len(last.before) < Len(templateValues(ModuleName))

-----------------------------------------------------------------------------
(* C11, C12: update and delete by id, requests served one after the other. *)

\* the records of list that carry the identifier id
Holders(list, id) == {i \in 1..Len(list) : list[i].id = id}

\* the position of the first record of list that carries id
FirstHolder(list, id) ==
    CHOOSE i \in Holders(list, id) : \A j \in Holders(list, id) : i <= j

\* what a record holds for key once the fields of a JSON object are laid over it
Overlaid(record, fields, key) ==
    IF key \notin DOMAIN fields THEN record[key]
    ELSE IF fields[key].t = "string" THEN fields[key].s
    ELSE fields[key].n

C12_DeleteRemovesFirstMatch ==
    last.op = "delete" =>
        IF Holders(last.before, last.id) = {}
        THEN last.status = 404 /\ store = last.before
        ELSE LET i == FirstHolder(last.before, last.id)
             IN  /\ last.status = 200
                 /\ last.data = last.before[i]
                 /\ Len(store) = Len(last.before) - 1
                 /\ store = SubSeq(last.before, 1, i - 1)
                             \o SubSeq(last.before, i + 1, Len(last.before))

\* a delete by an identifier that two records carry (an update has given the
\* third record the identifier of the first)
C12_Witness ==
    /\ last.op = "delete"
    /\ last.status = 200
    /\ Cardinality(Holders(last.before, last.id)) = 2
    /\ Cardinality(Holders(store, last.id)) = 1

-----------------------------------------------------------------------------
(* C13 to C16, C18, C19: invocations one after the other (SpecCli).        *)

\* the entries a generator finds in module.json
EntriesOf(f) ==
    IF f.manifest.present /\ f.manifest.parses /\ f.manifest.hasModules
    THEN f.manifest.modules
    ELSE <<>>

IsFrontendRun == run.cmd \in {"create", "create script"}
IsBackendRun == run.cmd \in {"create-server", "create-server script"}

NamedEntry(m, name) == m.t = "object" /\ m.name = name

\* C13: module.json never holds two {name, route} entries with one name; a
\* front-end invocation that completes leaves the entries of other names in
\* their order, drops the entry of its own kebab-case name and ends the list
\* with the new {name, route}.
C13_FrontendReplacesByName ==
    /\ \A i, j \in 1..Len(EntriesOf(fs)) :
          (i < j /\ EntriesOf(fs)[i].t = "object" /\ EntriesOf(fs)[j].t = "object")
              => EntriesOf(fs)[i].name # EntriesOf(fs)[j].name
    /\ (IsFrontendRun /\ run.how = "done") =>
          LET name == toKebab(run.arg)
              old == EntriesOf(run.before)
              new == EntriesOf(fs)
          IN  /\ new # <<>>
              /\ new[Len(new)].t = "object"
              /\ new[Len(new)].name = name
              /\ new[Len(new)].route = (IF run.route.def THEN run.route.val ELSE name)
              /\ SubSeq(new, 1, Len(new) - 1)
                    = SelectSeq(old, LAMBDA m : ~NamedEntry(m, name))

\* a module created again under another route while module.json holds an
\* entry of another module after its old entry
C13_Witness ==
    /\ run.cmd = "create"
    /\ run.how = "done"
    /\ LET old == EntriesOf(run.before)
       IN  /\ Len(old) >= 2
           /\ NamedEntry(old[1], toKebab(run.arg)) \/ NamedEntry(old[2], toKebab(run.arg))
           /\ ~NamedEntry(old[Len(old)], toKebab(run.arg))
           /\ Len(EntriesOf(fs)) = Len(old)
    /\ run.route.def


HoldsString(modules, text) ==
    \E i \in 1..Len(modules) : modules[i].t = "string" /\ modules[i].s = text

\* C14: no path string occurs twice in module.json; a back-end invocation
\* that reaches the manifest update and finds its path string in the list
\* leaves module.json as it was; one that changes module.json found no such
\* string, and appends its own after the entries it found.
C14_BackendAppendsOnce ==
    /\ \A i, j \in 1..Len(EntriesOf(fs)) :
          (i < j /\ EntriesOf(fs)[i].t = "string" /\ EntriesOf(fs)[j].t = "string")
              => EntriesOf(fs)[i].s # EntriesOf(fs)[j].s
    /\ (IsBackendRun /\ run.how = "done") =>
          LET old == EntriesOf(run.before)
          IN  /\ HoldsString(old, run.arg) => fs.manifest = run.before.manifest
              /\ fs.manifest # run.before.manifest =>
                    /\ ~HoldsString(old, run.arg)
                    /\ EntriesOf(fs) = old \o << [t |-> "string", s |-> run.arg] >>

\* create-server for a path that module.json lists while its directory is
\* gone: the module is generated and module.json keeps its two entries
C14_Witness ==
    /\ run.cmd = "create-server"
    /\ run.how = "done"
    /\ HoldsString(EntriesOf(run.before), run.arg)
    /\ Len(EntriesOf(fs)) = 2
    /\ Len(fs.log) > Len(run.before.log)


\* the invocation got as far as its log line
WroteLogLine == fs.log # run.before.log

\* C15, as stated: an invocation of any generator that reaches its manifest
\* update while module.json holds a text that does not parse completes, and
\* leaves a module.json whose only entry is the new one.
C15_AsStated ==
    (run.cmd # "none" /\ WroteLogLine
        /\ run.before.manifest.present /\ ~run.before.manifest.parses)
    => /\ run.how = "done"
       /\ run.code = 0
       /\ Len(EntriesOf(fs)) = 1
       /\ IF IsBackendRun THEN EntriesOf(fs)[1] = [t |-> "string", s |-> run.arg]
          ELSE NamedEntry(EntriesOf(fs)[1], toKebab(run.arg))

\* C16, as stated: create for a module whose directory is there ends
\* without writing: the project directory is as it was before.
C16_AsStated ==
    (run.cmd = "create" /\ modulePathOf(toKebab(run.arg)) \in run.before.dirs)
    => (run.code # 0 /\ fs = run.before)

IsPrefix(a, b) == Len(a) <= Len(b) /\ SubSeq(b, 1, Len(a)) = a

\* C18: every invocation leaves the lines module.log had as the first lines
\* of module.log; one that completes adds at least one line, one that the
\* guard ends adds none.
C18_LogAppendOnly ==
    run.cmd # "none" =>
        /\ IsPrefix(run.before.log, fs.log)
        /\ run.how = "done" => Len(fs.log) > Len(run.before.log)
        /\ run.how = "guard" => fs.log = run.before.log

\* a completed create-server that adds its line below the two lines of an
\* earlier one (the helper's and the module's)
C18_Witness ==
    /\ run.cmd = "create-server"
    /\ run.how = "done"
    /\ Len(run.before.log) = 2
    /\ Len(fs.log) = 3

\* C19: no invocation changes a response.ts that is there, and a back-end
\* invocation that passes the guard while response.ts is absent creates it.
C19_HelperWrittenOnce ==
    run.cmd # "none" =>
        /\ HelperFile \in DOMAIN run.before.files =>
              /\ HelperFile \in DOMAIN fs.files
              /\ fs.files[HelperFile] = run.before.files[HelperFile]
        /\ (IsBackendRun /\ WroteLogLine) =>
              /\ HelperFile \in DOMAIN fs.files
              /\ HelperFile \notin DOMAIN run.before.files =>
                    fs.files[HelperFile] = [kind |-> "response helper"]
        /\ IsFrontendRun => DOMAIN fs.files \cap {HelperFile}
                                = DOMAIN run.before.files \cap {HelperFile}

\* a completed create-server in a project whose response.ts the user edited
C19_Witness ==
    /\ run.cmd = "create-server"
    /\ run.how = "done"
    /\ HelperFile \in DOMAIN run.before.files
    /\ fs.files[HelperFile] = [kind |-> "response helper, edited"]
    /\ fs.files # run.before.files

-----------------------------------------------------------------------------
(* C17, C20: the steps of an invocation, and invocations at the same time  *)
(* (SpecSteps).                                                            *)

\* step a was done, and step b after it
DidBefore(did, a, b) ==
    \E i, j \in 1..Len(did) : i < j /\ did[i] = a /\ did[j] = b

HasLine(f, line) == \E i \in 1..Len(f.log) : f.log[i] = line

\* the module directory of the invocation
moduleDirOf(proc) ==
    IF proc.cmd = "create-server"
    THEN moduleFolderFullPath(parseModulePath(proc.arg).folderPath)
    ELSE modulePathOf(toKebab(proc.arg))

\* the name or path under which module.json lists the module of the invocation
KeyOf(proc) == IF proc.cmd = "create-server" THEN proc.arg ELSE toKebab(proc.arg)

Listed(modules, proc) ==
    \E i \in 1..Len(modules) :
        \/ modules[i].t = "string" /\ modules[i].s = KeyOf(proc)
        \/ modules[i].t = "object" /\ modules[i].name = KeyOf(proc)

\* C17, as stated: an invocation that completed has gone through the guard,
\* then written its files, then updated module.json, then appended its log
\* line.
C17_AsStated ==
    \A p \in Procs :
        procs[p].pc = "done" =>
            /\ DidBefore(procs[p].did, "guard", "files")
            /\ DidBefore(procs[p].did, "files", "manifest")
            /\ DidBefore(procs[p].did, "manifest", "log")

\* C17, amended: an invocation that completed has written its files, then
\* appended its log line, then updated module.json, and create-server has
\* gone through the guard before its files.  At every moment, an invocation
\* that is about to read or write module.json has its line in module.log and
\* its module directory on disk.
C17_LogBeforeManifest ==
    \A p \in Procs :
        /\ procs[p].pc = "done" =>
              /\ DidBefore(procs[p].did, "files", "log")
              /\ DidBefore(procs[p].did, "log", "manifest")
              /\ ~DidBefore(procs[p].did, "manifest", "log")
              /\ procs[p].cmd = "create-server" => DidBefore(procs[p].did, "guard", "files")
              /\ procs[p].cmd = "create" => \A i \in 1..Len(procs[p].did) : procs[p].did[i] # "guard"
        /\ procs[p].pc \in {"read", "write", "done"} =>
              /\ HasLine(fs, logLineOf(procs[p]))
              /\ moduleDirOf(procs[p]) \in fs.dirs

\* create-server has appended its log line, and module.json is not there yet
C17_Witness ==
    \E p \in Procs :
        /\ procs[p].cmd = "create-server"
        /\ procs[p].pc = "write"
        /\ HasLine(fs, [msg |-> "Generated module", rawPath |-> procs[p].arg])
        /\ ~fs.manifest.present

\* C20: the entry of a completed invocation is missing from module.json only
\* when another completed invocation read module.json without that entry and
\* module.json holds nothing but what that invocation read and its own entry:
\* a write from a reading that was out of date.
C20_LostOnlyToStaleWrite ==
    \A p \in Procs :
        (procs[p].pc = "done" /\ ~Listed(EntriesOf(fs), procs[p])) =>
            \E q \in Procs \ {p} :
                /\ procs[q].pc = "done"
                /\ ~Listed(procs[q].json, procs[p])
                /\ Listed(EntriesOf(fs), procs[q])
                /\ \A i \in 1..Len(EntriesOf(fs)) :
                      \/ \E j \in 1..Len(procs[q].json) : procs[q].json[j] = EntriesOf(fs)[i]
                      \/ Listed(<<EntriesOf(fs)[i]>>, procs[q])

\* two invocations for different modules have both completed, and module.json
\* lists only one of the two modules
C20_Witness ==
    \E p, q \in Procs :
        /\ p # q
        /\ procs[p].pc = "done"
        /\ procs[q].pc = "done"
        /\ KeyOf(procs[p]) # KeyOf(procs[q])
        /\ ~Listed(EntriesOf(fs), procs[p])
        /\ Listed(EntriesOf(fs), procs[q])

-----------------------------------------------------------------------------
(* C23, C25: identifiers of the store, route directories of the modules.   *)

\* C23, as stated: the identifiers of the stored records are pairwise
\* distinct, and an update leaves every record the identifier it had.
C23_AsStated ==
    /\ \A i, j \in 1..Len(store) : i # j => store[i].id # store[j].id
    /\ (last.op = "edit" /\ last.status = 200) =>
          \A i \in 1..Len(store) : store[i].id = last.before[i].id

\* the route directory create-server derives from a <path> argument
RunRouteDir(rawPath) == routeDirOf(buildRoutePath(parseModulePath(rawPath).parts))

\* C25, as stated: a create-server invocation that completes found no
\* +server.ts in its route directory: it overwrites the routes of no module
\* generated before it.
C25_AsStated ==
    (run.cmd = "create-server" /\ run.how = "done")
        => Append(RunRouteDir(run.rawPath), Seg("+server.ts")) \notin DOMAIN run.before.files

-----------------------------------------------------------------------------
(* C27: create and create-server sharing one module.json (SpecShare).      *)

Strings_(modules) == SelectSeq(modules, LAMBDA m : m.t = "string")
Objects_(modules) == SelectSeq(modules, LAMBDA m : m.t = "object")

\* module.json lists the module that a line of module.log reports
LineListed(line) ==
    \/ line.msg = "Created response helper"
    \/ /\ line.msg = "Generated module"
       /\ \E i \in 1..Len(EntriesOf(fs)) :
             \/ EntriesOf(fs)[i] = [t |-> "string", s |-> line.rawPath]
             \/ NamedEntry(EntriesOf(fs)[i], line.rawPath)
    \/ /\ line.msg = "Created module"
       /\ \E i \in 1..Len(EntriesOf(fs)) : NamedEntry(EntriesOf(fs)[i], line.name)

\* C27: create always completes and keeps the string entries of module.json
\* in their order; create-server completes unless the guard ends it or its
\* path has no segment, and keeps the {name, route} entries in their order;
\* module.json lists every module that module.log reports as generated.
C27_GeneratorsShareManifest ==
    /\ run.cmd = "create" =>
          /\ run.how = "done"
          /\ Strings_(EntriesOf(fs)) = Strings_(EntriesOf(run.before))
    /\ run.cmd = "create-server" =>
          /\ run.how = "threw" => parseModulePath(run.arg).parts = <<>>
          /\ run.how = "done" => Objects_(EntriesOf(fs)) = Objects_(EntriesOf(run.before))
    /\ \A i \in 1..Len(fs.log) : LineListed(fs.log[i])

\* create for a module after a create-server and a create have put their
\* entries into module.json: both kinds of entry are still there
C27_Witness ==
    /\ run.cmd = "create"
    /\ Len(Strings_(EntriesOf(run.before))) >= 1
    /\ Len(Objects_(EntriesOf(run.before))) >= 1
    /\ \E i \in 1..Len(run.before.log) : run.before.log[i].msg = "Generated module"
    /\ \E i \in 1..Len(run.before.log) : run.before.log[i].msg = "Created module"
    /\ Len(EntriesOf(fs)) > Len(EntriesOf(run.before))

-----------------------------------------------------------------------------
(* C22: the handlers of the detail route (SpecRoutes).                     *)

IsRouteRequest == last.op \in {"GET", "PUT", "DELETE"}

\* params.id is absent, empty or made of white space only
BlankParam(param) ==
    ~param.def \/ \A i \in 1..Len(param.val) : IsSpace(param.val[i])

\* what the service operation of the method answers for the text as it came
ServiceAnswer(method, fake, text, body) ==
    IF method = "GET" THEN [store |-> fake, response |-> getById(fake, idOfText(text))]
    ELSE IF method = "PUT" THEN edit(fake, idOfText(text), body)
    ELSE delete(fake, idOfText(text))

\* C22: a handler of the detail route answers 400 and leaves the store as it
\* was when params.id is absent, empty or white space only; for any other
\* params.id it answers, and does to the store, what the service operation
\* does when it is given that text unchanged.
C22_DetailRouteValidatesId ==
    IsRouteRequest =>
        IF BlankParam(last.param)
        THEN last.status = 400 /\ store = last.before
        ELSE LET r == ServiceAnswer(last.op, last.before, last.param.val, last.body)
             IN  /\ store = r.store
                 /\ last.status = r.response.status
                 /\ last.data = r.response.data

\* DELETE with " 1": the text is no identifier of the store, the answer is
\* 404 and the record with identifier 1 stays
C22_Witness ==
    /\ last.op = "DELETE"
    /\ last.param = Param(<<" ", "1">>)
    /\ last.status = 404
    /\ \E i \in 1..Len(store) : store[i].id = 1
    /\ count.deletes > 0

-----------------------------------------------------------------------------
(* C24: an update and the requests served during its await (SpecRace).     *)

\* C24, as stated: the write of an update goes to a slot of the store as it
\* is then, that slot holds the record with the identifier the update looked
\* up, and the write changes neither another slot nor the length.
C24_AsStated ==
    (last.op = "write" /\ last.status = 200) =>
        /\ last.index <= Len(last.before)
        /\ last.before[last.index].id = last.id
        /\ Len(store) = Len(last.before)
        /\ \A j \in 1..Len(store) : j # last.index => store[j] = last.before[j]

-----------------------------------------------------------------------------
(* C21, C26: create-server invocations that fail partway (SpecFail).       *)

\* the invocation that just ended, when a failing call ended it
LastFailure == CHOOSE h \in failed : h.n = nRuns

JustFailed == run.cmd = "create-server" /\ run.how = "failed"

\* what call c leaves in directory f
Shows(f, c, before) ==
    CASE c.op = "mkdir" -> c.path \in f.dirs
      [] c.op = "write" -> c.path \in DOMAIN f.files /\ f.files[c.path] = c.text
      [] c.op = "log" -> \E i \in (Len(before.log) + 1)..Len(f.log) : f.log[i] = c.text
      [] c.op = "manifest" -> f.manifest # before.manifest

\* call c has left nothing in directory f
Untouched(f, c, before) ==
    CASE c.op = "mkdir" -> c.path \in f.dirs => c.path \in before.dirs
      [] c.op = "write" ->
            IF c.path \in DOMAIN before.files
            THEN c.path \in DOMAIN f.files /\ f.files[c.path] = before.files[c.path]
            ELSE c.path \notin DOMAIN f.files
      [] c.op = "log" -> \A i \in (Len(before.log) + 1)..Len(f.log) : f.log[i] # c.text
      [] c.op = "manifest" -> f.manifest = before.manifest

\* C21: a create-server invocation whose k-th file system call fails exits
\* with code 1 and leaves the directory with what was there before and what
\* its first k-1 calls made: nothing is taken back, and the failing call and
\* the calls after it (files, log line, manifest entry) have left nothing.
C21_FailureKeepsCompletedSteps ==
    JustFailed =>
        LET h == LastFailure
        IN  /\ run.code = 1
            /\ run.before.dirs \subseteq fs.dirs
            /\ DOMAIN run.before.files \subseteq DOMAIN fs.files
            /\ IsPrefix(run.before.log, fs.log)
            /\ \A i \in 1..(h.k - 1) : Shows(fs, h.calls[i], run.before)
            /\ \A i \in h.k..Len(h.calls) : Untouched(fs, h.calls[i], run.before)

\* C21 witness: the write of services.ts failed; types.ts and values.ts are on disk
C21_Witness ==
    /\ JustFailed
    /\ LastFailure.calls[LastFailure.k].op = "write"
    /\ LastFailure.calls[LastFailure.k].text.kind = "services"
    /\ \E q \in DOMAIN fs.files : fs.files[q].kind = "values"


\* the module directory a <path> argument names
dirOfPath(rawPath) == moduleFolderFullPath(parseModulePath(rawPath).folderPath)

\* the failing call of h came after the mkdirSync of its module directory
MadeModuleDir(h) ==
    \E i \in 1..(h.k - 1) : h.calls[i].op = "mkdir" /\ h.calls[i].path = dirOfPath(h.rawPath)

\* the path strings of module.json that name directory dir
StringsFor(f, dir) ==
    { i \in 1..Len(EntriesOf(f)) :
        EntriesOf(f)[i].t = "string" /\ dirOfPath(EntriesOf(f)[i].s) = dir }

RetryOf(h) ==
    /\ run.cmd = "create-server"
    /\ nRuns > h.n
    /\ dirOfPath(run.arg) = dirOfPath(h.rawPath)

\* C26: after a create-server invocation that made its module directory and
\* then failed, every later create-server invocation for that directory ends
\* at the guard with code 1 and changes nothing; the files of the module
\* directory that the failed invocation did not write stay unwritten, and
\* module.json gets no path string for the directory.
C26_FailedModuleStaysHalfMade ==
    \A h \in failed :
        MadeModuleDir(h) =>
            /\ dirOfPath(h.rawPath) \in fs.dirs
            /\ RetryOf(h) => run.how = "guard" /\ run.code = 1 /\ fs = run.before
            /\ \A i \in h.k..Len(h.calls) :
                  (h.calls[i].op = "write"
                     /\ IsPrefix(dirOfPath(h.rawPath), h.calls[i].path))
                  => Untouched(fs, h.calls[i], h.fs)
            /\ StringsFor(fs, dirOfPath(h.rawPath)) = StringsFor(h.fs, dirOfPath(h.rawPath))

\* C26 witness: "a" failed at the write of services.ts in a new project; a
\* later create-server for "/a/", the same directory, was turned away
C26_Witness ==
    \E h \in failed :
        /\ MadeModuleDir(h)
        /\ h.calls[h.k].text = [kind |-> "services", name |-> <<"a">>]
        /\ StringsFor(h.fs, dirOfPath(h.rawPath)) = {}
        /\ RetryOf(h)
        /\ run.arg # h.rawPath
        /\ run.how = "guard"

=============================================================================
